---- MODULE Spec2Model ----
(***************************************************************************)
(* Model of the incremental HTTP/1.1 request parser (internal/requests),   *)
(* the header store (internal/headers) and the read/parse/slide loop of    *)
(* RequestFromReader.  Byte strings are sequences of one-character         *)
(* strings; a Go string and a Go []byte are modelled alike.                *)
(***************************************************************************)
EXTENDS Integers, Sequences, FiniteSets, TLC

(***************************************************************************)
(* Bytes and the library functions the parser relies on.                   *)
(***************************************************************************)
SEPARATOR == <<"\r", "\n">>

rn == <<"\r", "\n">>

UpperLetters ==
  {"A","B","C","D","E","F","G","H","I","J","K","L","M",
   "N","O","P","Q","R","S","T","U","V","W","X","Y","Z"}

LowerLetters ==
  {"a","b","c","d","e","f","g","h","i","j","k","l","m",
   "n","o","p","q","r","s","t","u","v","w","x","y","z"}

Digits == {"0","1","2","3","4","5","6","7","8","9"}

\* unicode.IsSpace restricted to the single-byte characters
WhiteSpace == {" ", "\t", "\n", "\r", "\f"}

LowerOf ==
  [c \in UpperLetters |->
     CASE c = "A" -> "a" [] c = "B" -> "b" [] c = "C" -> "c" [] c = "D" -> "d"
       [] c = "E" -> "e" [] c = "F" -> "f" [] c = "G" -> "g" [] c = "H" -> "h"
       [] c = "I" -> "i" [] c = "J" -> "j" [] c = "K" -> "k" [] c = "L" -> "l"
       [] c = "M" -> "m" [] c = "N" -> "n" [] c = "O" -> "o" [] c = "P" -> "p"
       [] c = "Q" -> "q" [] c = "R" -> "r" [] c = "S" -> "s" [] c = "T" -> "t"
       [] c = "U" -> "u" [] c = "V" -> "v" [] c = "W" -> "w" [] c = "X" -> "x"
       [] c = "Y" -> "y" [] c = "Z" -> "z"]

DigitVal ==
  [c \in Digits |->
     CASE c = "0" -> 0 [] c = "1" -> 1 [] c = "2" -> 2 [] c = "3" -> 3
       [] c = "4" -> 4 [] c = "5" -> 5 [] c = "6" -> 6 [] c = "7" -> 7
       [] c = "8" -> 8 [] c = "9" -> 9]

Min(S) == CHOOSE m \in S : \A k \in S : m <= k

\* Go's builtin min on two ints
min(a, b) == IF a <= b THEN a ELSE b

\* s[from:] with a 0-based offset
Drop(s, from) == SubSeq(s, from + 1, Len(s))

\* s[:to] with a 0-based end
Take(s, to) == SubSeq(s, 1, to)

\* bytes.Index: 0-based offset of the first occurrence of sep in b, or -1
Index(b, sep) ==
  LET hits == {i \in 0..(Len(b) - Len(sep)) : SubSeq(b, i + 1, i + Len(sep)) = sep}
  IN  IF hits = {} THEN -1 ELSE Min(hits)

\* bytes.Split on a one-byte separator: every occurrence splits
RECURSIVE Split(_, _)
Split(s, c) ==
  LET i == Index(s, <<c>>)
  IN  IF i = -1 THEN <<s>>
      ELSE <<Take(s, i)>> \o Split(Drop(s, i + 1), c)

\* bytes.SplitN on a one-byte separator with n > 0: at most n parts
RECURSIVE SplitN(_, _, _)
SplitN(s, c, n) ==
  LET i == Index(s, <<c>>)
  IN  IF n = 1 \/ i = -1 THEN <<s>>
      ELSE <<Take(s, i)>> \o SplitN(Drop(s, i + 1), c, n - 1)

\* strings.ToLower on ASCII text
ToLower(s) == [i \in 1..Len(s) |-> IF s[i] \in UpperLetters THEN LowerOf[s[i]] ELSE s[i]]

\* bytes.TrimSpace
TrimSpace(s) ==
  LET keep == {i \in 1..Len(s) : s[i] \notin WhiteSpace}
  IN  IF keep = {} THEN <<>>
      ELSE SubSeq(s, Min(keep), CHOOSE m \in keep : \A k \in keep : k <= m)

\* bytes.HasSuffix
HasSuffix(s, suffix) ==
  Len(s) >= Len(suffix) /\ SubSeq(s, Len(s) - Len(suffix) + 1, Len(s)) = suffix

\* value of a non-empty run of decimal digits
RECURSIVE DecimalValue(_)
DecimalValue(s) ==
  IF Len(s) = 0 THEN 0
  ELSE 10 * DecimalValue(Take(s, Len(s) - 1)) + DigitVal[s[Len(s)]]

\* strconv.Atoi: optional sign, then one or more decimal digits.  The
\* out-of-range error needs 19 digits or more and no value of the model is
\* that long.
Atoi(s) ==
  LET signed == Len(s) > 0 /\ s[1] \in {"+", "-"}
      digits == IF signed THEN Drop(s, 1) ELSE s
  IN  IF Len(digits) = 0 \/ \E i \in 1..Len(digits) : digits[i] \notin Digits
      THEN [ok |-> FALSE, value |-> 0]
      ELSE [ok |-> TRUE,
            value |-> IF signed /\ s[1] = "-" THEN 0 - DecimalValue(digits)
                      ELSE DecimalValue(digits)]

\* strings.HasPrefix
HasPrefix(s, prefix) == Len(s) >= Len(prefix) /\ Take(s, Len(prefix)) = prefix

DigitChars ==
  <<"0", "1", "2", "3", "4", "5", "6", "7", "8", "9", "a", "b", "c", "d", "e", "f">>

\* the digits of n >= 0 in the given base, as fmt.Sprintf writes them
RECURSIVE FormatBase(_, _)
FormatBase(n, base) ==
  IF n < base THEN <<DigitChars[n + 1]>>
  ELSE FormatBase(n \div base, base) \o <<DigitChars[(n % base) + 1]>>

\* fmt.Sprintf("%d", n)
SprintfD(n) == FormatBase(n, 10)

\* fmt.Sprintf("%x", n)
SprintfX(n) == FormatBase(n, 16)

(***************************************************************************)
(* internal/headers                                                        *)
(***************************************************************************)
\* the byte 0x60 (grave accent) cannot be written in a TLA+ string literal
Backtick == "GRAVE"

TokenPunctuation ==
  {"!", "#", "$", "%", "&", "'", "*", "+", "-", ".", "^", "_", Backtick, "|", "~"}

\* isToken with a wider set: "@" passes as well
isTokenWithAt(str) ==
  \A i \in 1..Len(str) :
    str[i] \in LowerLetters \cup UpperLetters \cup Digits \cup TokenPunctuation \cup {"@"}

isToken(str) ==
  \A i \in 1..Len(str) :
    str[i] \in LowerLetters \cup UpperLetters \cup Digits \cup TokenPunctuation

ErrMalformedHeaderLine == "malformed header line"

ErrMalformedFieldName == "malformed header field name"

ErrMalformedHeaderName == "malformed header name"

\* parseHeader with a faulty split: every colon splits
parseHeaderEveryColon(fieldLine) ==
  LET parts == Split(fieldLine, ":")
  IN  IF Len(parts) < 2
      THEN [fieldName |-> <<>>, fieldValue |-> <<>>, err |-> ErrMalformedHeaderLine]
      ELSE IF HasSuffix(parts[1], <<" ">>)
      THEN [fieldName |-> <<>>, fieldValue |-> <<>>, err |-> ErrMalformedFieldName]
      ELSE [fieldName |-> parts[1], fieldValue |-> TrimSpace(parts[2]), err |-> "nil"]

parseHeader(fieldLine) ==
  LET parts == SplitN(fieldLine, ":", 2)
  IN  IF Len(parts) # 2
      THEN [fieldName |-> <<>>, fieldValue |-> <<>>, err |-> ErrMalformedHeaderLine]
      ELSE IF HasSuffix(parts[1], <<" ">>)
      THEN [fieldName |-> <<>>, fieldValue |-> <<>>, err |-> ErrMalformedFieldName]
      ELSE [fieldName |-> parts[1], fieldValue |-> TrimSpace(parts[2]), err |-> "nil"]

\* the map of a Headers value: a function from stored names to values
NewHeaders == <<>>

\* Get without the case folding of the name
HeadersGetExact(h, name) ==
  IF name \in DOMAIN h
  THEN [value |-> h[name], ok |-> TRUE]
  ELSE [value |-> <<>>, ok |-> FALSE]

HeadersGet(h, name) ==
  IF ToLower(name) \in DOMAIN h
  THEN [value |-> h[ToLower(name)], ok |-> TRUE]
  ELSE [value |-> <<>>, ok |-> FALSE]

\* Replace that appends, as Set does
HeadersReplaceAppend(h, name, value) ==
  LET lname == ToLower(name)
  IN  IF lname \in DOMAIN h
      THEN [h EXCEPT ![lname] = h[lname] \o <<",">> \o value]
      ELSE [k \in DOMAIN h \cup {lname} |-> IF k = lname THEN value ELSE h[k]]

HeadersReplace(h, name, value) ==
  LET lname == ToLower(name)
  IN  [k \in DOMAIN h \cup {lname} |-> IF k = lname THEN value ELSE h[k]]

\* Delete without the case folding of the name
HeadersDeleteExact(h, name) == [k \in DOMAIN h \ {name} |-> h[k]]

HeadersDelete(h, name) ==
  LET lname == ToLower(name)
  IN  [k \in DOMAIN h \ {lname} |-> h[k]]

\* Set that joins with a comma and a space
HeadersSetSpaced(h, name, value) ==
  LET lname == ToLower(name)
  IN  IF lname \in DOMAIN h
      THEN [h EXCEPT ![lname] = h[lname] \o <<",", " ">> \o value]
      ELSE [k \in DOMAIN h \cup {lname} |-> IF k = lname THEN value ELSE h[k]]

\* Set that stores under the name as given when the name is new
HeadersSetAsGiven(h, name, value) ==
  LET lname == ToLower(name)
  IN  IF lname \in DOMAIN h
      THEN [h EXCEPT ![lname] = h[lname] \o <<",">> \o value]
      ELSE [k \in DOMAIN h \cup {name} |-> IF k = name THEN value ELSE h[k]]

HeadersSet(h, name, value) ==
  LET lname == ToLower(name)
  IN  IF lname \in DOMAIN h
      THEN [h EXCEPT ![lname] = h[lname] \o <<",">> \o value]
      ELSE [k \in DOMAIN h \cup {lname} |-> IF k = lname THEN value ELSE h[k]]

\* Headers.Parse: the loop over the field lines of data, from offset read
RECURSIVE HeadersParseLoop(_, _, _)
HeadersParseLoop(h, data, read) ==
  LET idx == Index(Drop(data, read), rn)
  IN  IF idx = -1 THEN [h |-> h, n |-> read, done |-> FALSE, err |-> "nil"]
      ELSE IF idx = 0 THEN [h |-> h, n |-> read + Len(rn), done |-> TRUE, err |-> "nil"]
      ELSE LET f == parseHeader(SubSeq(data, read + 1, read + idx))
           IN  IF f.err # "nil" THEN [h |-> h, n |-> 0, done |-> FALSE, err |-> f.err]
               ELSE IF ~isToken(f.fieldName)
               THEN [h |-> h, n |-> 0, done |-> FALSE, err |-> ErrMalformedHeaderName]
               ELSE HeadersParseLoop(HeadersSet(h, f.fieldName, f.fieldValue),
                                     data, read + idx + Len(rn))

\* Parse with a faulty count: the empty line is left in the buffer
HeadersParseBlankLeft(h, data) ==
  LET p == HeadersParseLoop(h, data, 0)
  IN  IF p.done THEN [p EXCEPT !.n = p.n - Len(rn)] ELSE p

HeadersParse(h, data) == HeadersParseLoop(h, data, 0)

(***************************************************************************)
(* internal/requests: the request parser                                   *)
(***************************************************************************)
StateInit == "init"

StateHeader == "headers"

StateBody == "body"

StateDone == "done"

StateError == "error"

ERROR_MALFORMED_REQUEST_LINE == "ERROR_MALFORMED_REQUEST_LINE"

ERROR_UNSUPPORTED_HTTP_VERSION == "ERROR_UNSUPPORTED_HTTP_VERSION"

ERROR_REQUEST_IN_ERROR_STATE == "ERROR_REQUEST_IN_ERROR_STATE"

\* what a panicking call leaves in place of an error value
Panic == "panic"

\* the zero RequestLine (its Body field is never written and is left out)
ZeroRequestLine == [HttpVersion |-> <<>>, RequestTarget |-> <<>>, Method |-> <<>>]

newRequest ==
  [state |-> StateInit, RequestLine |-> ZeroRequestLine, Headers |-> NewHeaders, Body |-> <<>>]

getInt(headers, name, defaultValue) ==
  LET g == HeadersGet(headers, name)
  IN  IF ~g.ok THEN defaultValue
      ELSE IF ~Atoi(g.value).ok THEN defaultValue
      ELSE Atoi(g.value).value

ContentLengthName == <<"c", "o", "n", "t", "e", "n", "t", "-", "l", "e", "n", "g", "t", "h">>

HTTPText == <<"H", "T", "T", "P">>

Version11 == <<"1", ".", "1">>

\* parseRequestLine with a faulty count: read leaves out the line feed
parseRequestLineShortRead(b) ==
  LET idx == Index(b, SEPARATOR)
      line == Take(b, idx)
      read == idx + 1
      parts == Split(line, " ")
      HttpParts == Split(parts[3], "/")
  IN  IF idx = -1 THEN [rl |-> ZeroRequestLine, n |-> 0, err |-> "nil"]
      ELSE IF Len(parts) # 3
      THEN [rl |-> ZeroRequestLine, n |-> 0, err |-> ERROR_MALFORMED_REQUEST_LINE]
      ELSE IF Len(HttpParts) # 2 \/ HttpParts[1] # HTTPText \/ HttpParts[2] # Version11
      THEN [rl |-> ZeroRequestLine, n |-> 0, err |-> ERROR_MALFORMED_REQUEST_LINE]
      ELSE [rl |-> [Method |-> parts[1], RequestTarget |-> parts[2],
                    HttpVersion |-> HttpParts[2]],
            n |-> read, err |-> "nil"]

\* parseRequestLine with a faulty field: the whole version token is stored
parseRequestLineWholeVersion(b) ==
  LET idx == Index(b, SEPARATOR)
      line == Take(b, idx)
      read == idx + Len(SEPARATOR)
      parts == Split(line, " ")
      HttpParts == Split(parts[3], "/")
  IN  IF idx = -1 THEN [rl |-> ZeroRequestLine, n |-> 0, err |-> "nil"]
      ELSE IF Len(parts) # 3
      THEN [rl |-> ZeroRequestLine, n |-> 0, err |-> ERROR_MALFORMED_REQUEST_LINE]
      ELSE IF Len(HttpParts) # 2 \/ HttpParts[1] # HTTPText \/ HttpParts[2] # Version11
      THEN [rl |-> ZeroRequestLine, n |-> 0, err |-> ERROR_MALFORMED_REQUEST_LINE]
      ELSE [rl |-> [Method |-> parts[1], RequestTarget |-> parts[2],
                    HttpVersion |-> parts[3]],
            n |-> read, err |-> "nil"]

parseRequestLine(b) ==
  LET idx == Index(b, SEPARATOR)
      line == Take(b, idx)
      read == idx + Len(SEPARATOR)
      parts == Split(line, " ")
      HttpParts == Split(parts[3], "/")
  IN  IF idx = -1 THEN [rl |-> ZeroRequestLine, n |-> 0, err |-> "nil"]
      ELSE IF Len(parts) # 3
      THEN [rl |-> ZeroRequestLine, n |-> 0, err |-> ERROR_MALFORMED_REQUEST_LINE]
      ELSE IF Len(HttpParts) # 2 \/ HttpParts[1] # HTTPText \/ HttpParts[2] # Version11
      THEN [rl |-> ZeroRequestLine, n |-> 0, err |-> ERROR_MALFORMED_REQUEST_LINE]
      ELSE [rl |-> [Method |-> parts[1], RequestTarget |-> parts[2],
                    HttpVersion |-> HttpParts[2]],
            n |-> read, err |-> "nil"]

\* hasBody with a faulty test: any content-length field announces a body
hasBodyWhenPresent(r) == HeadersGet(r.Headers, ContentLengthName).ok

hasBody(r) == getInt(r.Headers, ContentLengthName, 0) > 0

(***************************************************************************)
(* One call of Request.parse is a run of its loop.  A loop state holds the *)
(* request r, the offset read, and whether the loop has been left (stop)   *)
(* with the values n and err the call returns.  Three fields record what   *)
(* happened inside the call: trace lists the values r.state took, rlErr is *)
(* the error parseRequestLine returned to the call, and bodyRead counts    *)
(* the bytes the Body case took.                                           *)
(***************************************************************************)
enterParse(r) ==
  [r |-> r, read |-> 0, stop |-> FALSE, n |-> 0, err |-> "nil",
   trace |-> <<r.state>>, rlErr |-> "nil", bodyRead |-> 0]

\* break outer, then return read, nil
breakOuter(c) == [c EXCEPT !.stop = TRUE, !.n = c.read, !.err = "nil"]

\* return n, err from inside the loop
returnFrom(c, n, err) == [c EXCEPT !.stop = TRUE, !.n = n, !.err = err]

setState(c, s) == [c EXCEPT !.r.state = s, !.trace = Append(c.trace, s)]

caseError(c, currentRead) == returnFrom(c, 0, ERROR_REQUEST_IN_ERROR_STATE)

\* caseInit with a faulty transition: a parsed request line ends the request
caseInitToDone(c, currentRead) ==
  LET p == parseRequestLine(currentRead)
  IN  IF p.err # "nil"
      THEN returnFrom([setState(c, StateError) EXCEPT !.rlErr = p.err], 0, "nil")
      ELSE IF p.n = 0 THEN breakOuter(c)
      ELSE setState([c EXCEPT !.r.RequestLine = p.rl, !.read = c.read + p.n], StateDone)

caseInit(c, currentRead) ==
  LET p == parseRequestLine(currentRead)
  IN  IF p.err # "nil"
      THEN returnFrom([setState(c, StateError) EXCEPT !.rlErr = p.err], 0, "nil")
      ELSE IF p.n = 0 THEN breakOuter(c)
      ELSE setState([c EXCEPT !.r.RequestLine = p.rl, !.read = c.read + p.n], StateHeader)

\* caseHeader with a faulty wait: an incomplete line is reported as an error
caseHeaderNoWait(c, currentRead) ==
  LET p == HeadersParse(c.r.Headers, currentRead)
      c1 == [c EXCEPT !.r.Headers = p.h]
      c2 == [c1 EXCEPT !.read = c.read + p.n]
  IN  IF p.err # "nil" THEN returnFrom(c1, 0, p.err)
      ELSE IF p.n = 0 THEN returnFrom(c1, 0, ErrMalformedHeaderLine)
      ELSE IF p.done
      THEN (IF hasBody(c2.r) THEN setState(c2, StateBody) ELSE setState(c2, StateDone))
      ELSE c2

\* caseHeader with a faulty branch: the end of the headers always leads to
\* Body
caseHeaderAlwaysBody(c, currentRead) ==
  LET p == HeadersParse(c.r.Headers, currentRead)
      c1 == [c EXCEPT !.r.Headers = p.h]
      c2 == [c1 EXCEPT !.read = c.read + p.n]
  IN  IF p.err # "nil" THEN returnFrom(c1, 0, p.err)
      ELSE IF p.n = 0 THEN breakOuter(c1)
      ELSE IF p.done THEN setState(c2, StateBody)
      ELSE c2

caseHeader(c, currentRead) ==
  LET p == HeadersParse(c.r.Headers, currentRead)
      c1 == [c EXCEPT !.r.Headers = p.h]
      c2 == [c1 EXCEPT !.read = c.read + p.n]
  IN  IF p.err # "nil" THEN returnFrom(c1, 0, p.err)
      ELSE IF p.n = 0 THEN breakOuter(c1)
      ELSE IF p.done
      THEN (IF hasBody(c2.r) THEN setState(c2, StateBody) ELSE setState(c2, StateDone))
      ELSE c2

\* caseBody with a faulty count: all the bytes at hand go into the body
caseBodyTakeAll(c, currentRead) ==
  LET length == getInt(c.r.Headers, ContentLengthName, 0)
      remaining == Len(currentRead)
      c1 == [c EXCEPT !.r.Body = c.r.Body \o Take(currentRead, remaining),
                      !.read = c.read + remaining,
                      !.bodyRead = c.bodyRead + remaining]
  IN  IF length = 0 \/ remaining < 0 THEN returnFrom(c, 0, Panic)
      ELSE IF Len(c1.r.Body) = length THEN setState(c1, StateDone)
      ELSE c1

caseBody(c, currentRead) ==
  LET length == getInt(c.r.Headers, ContentLengthName, 0)
      remaining == min(length - Len(c.r.Body), Len(currentRead))
      c1 == [c EXCEPT !.r.Body = c.r.Body \o Take(currentRead, remaining),
                      !.read = c.read + remaining,
                      !.bodyRead = c.bodyRead + remaining]
  IN  IF length = 0 \/ remaining < 0 THEN returnFrom(c, 0, Panic)
      ELSE IF Len(c1.r.Body) = length THEN setState(c1, StateDone)
      ELSE c1

\* caseDone with a faulty drain: the bytes behind the request are consumed
caseDoneDrain(c, currentRead) ==
  breakOuter([c EXCEPT !.read = c.read + Len(currentRead)])

caseDone(c, currentRead) == breakOuter(c)

RECURSIVE parseLoop(_, _)
parseLoop(c, data) ==
  LET currentRead == Drop(data, c.read)
  IN  IF c.stop THEN c
      ELSE IF Len(currentRead) = 0 THEN breakOuter(c)
      ELSE parseLoop(CASE c.r.state = StateError -> caseError(c, currentRead)
                       [] c.r.state = StateInit -> caseInit(c, currentRead)
                       [] c.r.state = StateHeader -> caseHeader(c, currentRead)
                       [] c.r.state = StateBody -> caseBody(c, currentRead)
                       [] c.r.state = StateDone -> caseDone(c, currentRead)
                       [] OTHER -> returnFrom(c, 0, Panic),
                     data)

parse(r, data) == parseLoop(enterParse(r), data)

done(r) == r.state = StateDone \/ r.state = StateError

(***************************************************************************)
(* The byte streams the model feeds to the parser.                         *)
(***************************************************************************)
\* a request with one field line and no body
\*   GET /a HTTP/1.1\r\nHost: x\r\n\r\n
ExampleStream ==
  <<"G", "E", "T", " ", "/", "a", " ", "H", "T", "T", "P", "/", "1", ".",
    "1", "\r", "\n", "H", "o", "s", "t", ":", " ", "x", "\r", "\n", "\r",
    "\n">>

\* no field line; a second request line follows the blank line
\*   GET /a HTTP/1.1\r\n\r\nGET /a HTTP/1.1\r\n
NoHeaderStream ==
  <<"G", "E", "T", " ", "/", "a", " ", "H", "T", "T", "P", "/", "1", ".",
    "1", "\r", "\n", "\r", "\n", "G", "E", "T", " ", "/", "a", " ", "H", "T",
    "T", "P", "/", "1", ".", "1", "\r", "\n">>

\* a 3-byte body followed by two bytes that belong to no request
\*   GET /a HTTP/1.1\r\nContent-Length: 3\r\n\r\nabcde
BodyStream ==
  <<"G", "E", "T", " ", "/", "a", " ", "H", "T", "T", "P", "/", "1", ".",
    "1", "\r", "\n", "C", "o", "n", "t", "e", "n", "t", "-", "L", "e", "n",
    "g", "t", "h", ":", " ", "3", "\r", "\n", "\r", "\n", "a", "b", "c", "d",
    "e">>

\* content-length 0
\*   GET /a HTTP/1.1\r\nContent-Length: 0\r\n\r\nab
ZeroLengthStream ==
  <<"G", "E", "T", " ", "/", "a", " ", "H", "T", "T", "P", "/", "1", ".",
    "1", "\r", "\n", "C", "o", "n", "t", "e", "n", "t", "-", "L", "e", "n",
    "g", "t", "h", ":", " ", "0", "\r", "\n", "\r", "\n", "a", "b">>

\* content-length -1
\*   GET /a HTTP/1.1\r\nContent-Length: -1\r\n\r\nab
NegativeLengthStream ==
  <<"G", "E", "T", " ", "/", "a", " ", "H", "T", "T", "P", "/", "1", ".",
    "1", "\r", "\n", "C", "o", "n", "t", "e", "n", "t", "-", "L", "e", "n",
    "g", "t", "h", ":", " ", "-", "1", "\r", "\n", "\r", "\n", "a", "b">>

\* content-length +2, which strconv.Atoi reads as 2
\*   GET /a HTTP/1.1\r\nContent-Length: +2\r\n\r\nab
PlusLengthStream ==
  <<"G", "E", "T", " ", "/", "a", " ", "H", "T", "T", "P", "/", "1", ".",
    "1", "\r", "\n", "C", "o", "n", "t", "e", "n", "t", "-", "L", "e", "n",
    "g", "t", "h", ":", " ", "+", "2", "\r", "\n", "\r", "\n", "a", "b">>

\* a content-length that is not a number
\*   GET /a HTTP/1.1\r\nContent-Length: x\r\n\r\nab
TextLengthStream ==
  <<"G", "E", "T", " ", "/", "a", " ", "H", "T", "T", "P", "/", "1", ".",
    "1", "\r", "\n", "C", "o", "n", "t", "e", "n", "t", "-", "L", "e", "n",
    "g", "t", "h", ":", " ", "x", "\r", "\n", "\r", "\n", "a", "b">>

\* content-length given twice: the stored value is 2,2
\*   GET /a HTTP/1.1\r\nContent-Length: 2\r\ncontent-length: 2\r\n\r\nab
RepeatedLengthStream ==
  <<"G", "E", "T", " ", "/", "a", " ", "H", "T", "T", "P", "/", "1", ".",
    "1", "\r", "\n", "C", "o", "n", "t", "e", "n", "t", "-", "L", "e", "n",
    "g", "t", "h", ":", " ", "2", "\r", "\n", "c", "o", "n", "t", "e", "n",
    "t", "-", "l", "e", "n", "g", "t", "h", ":", " ", "2", "\r", "\n", "\r",
    "\n", "a", "b">>

\* one field in two lines and two letter cases
\*   GET /a HTTP/1.1\r\nX: a\r\nx: b c\r\n\r\n
MultiValueStream ==
  <<"G", "E", "T", " ", "/", "a", " ", "H", "T", "T", "P", "/", "1", ".",
    "1", "\r", "\n", "X", ":", " ", "a", "\r", "\n", "x", ":", " ", "b", " ",
    "c", "\r", "\n", "\r", "\n">>

\* a carriage return inside a field value
\*   GET /a HTTP/1.1\r\nA: b\rc\r\n\r\n
LoneCRStream ==
  <<"G", "E", "T", " ", "/", "a", " ", "H", "T", "T", "P", "/", "1", ".",
    "1", "\r", "\n", "A", ":", " ", "b", "\r", "c", "\r", "\n", "\r", "\n">>

\* a well-formed field line, then a line without a colon
\*   GET /a HTTP/1.1\r\nA: b\r\nHost x\r\n\r\n
NoColonStream ==
  <<"G", "E", "T", " ", "/", "a", " ", "H", "T", "T", "P", "/", "1", ".",
    "1", "\r", "\n", "A", ":", " ", "b", "\r", "\n", "H", "o", "s", "t", " ",
    "x", "\r", "\n", "\r", "\n">>

\* a space before the colon
\*   GET /a HTTP/1.1\r\nHost : x\r\n\r\n
SpaceColonStream ==
  <<"G", "E", "T", " ", "/", "a", " ", "H", "T", "T", "P", "/", "1", ".",
    "1", "\r", "\n", "H", "o", "s", "t", " ", ":", " ", "x", "\r", "\n",
    "\r", "\n">>

\* a field name outside the token grammar
\*   GET /a HTTP/1.1\r\nH@st: x\r\n\r\n
BadNameStream ==
  <<"G", "E", "T", " ", "/", "a", " ", "H", "T", "T", "P", "/", "1", ".",
    "1", "\r", "\n", "H", "@", "s", "t", ":", " ", "x", "\r", "\n", "\r",
    "\n">>

\* a request line of two tokens
\*   GET /a\r\nHost: x\r\n\r\n
TwoTokenStream ==
  <<"G", "E", "T", " ", "/", "a", "\r", "\n", "H", "o", "s", "t", ":", " ",
    "x", "\r", "\n", "\r", "\n">>

\* two spaces between method and target: four tokens
\*   GET  /a HTTP/1.1\r\n\r\n
DoubleSpaceStream ==
  <<"G", "E", "T", " ", " ", "/", "a", " ", "H", "T", "T", "P", "/", "1",
    ".", "1", "\r", "\n", "\r", "\n">>

\* an empty request line
\*   \r\nGET /a HTTP/1.1\r\n\r\n
EmptyLineStream ==
  <<"\r", "\n", "G", "E", "T", " ", "/", "a", " ", "H", "T", "T", "P", "/",
    "1", ".", "1", "\r", "\n", "\r", "\n">>

\* a bare line feed where the request line should end
\*   GET /a HTTP/1.1\nA: b\r\n\r\n
LineFeedStream ==
  <<"G", "E", "T", " ", "/", "a", " ", "H", "T", "T", "P", "/", "1", ".",
    "1", "\n", "A", ":", " ", "b", "\r", "\n", "\r", "\n">>

\* version HTTP/2.0
\*   GET /a HTTP/2.0\r\n\r\n
Version20Stream ==
  <<"G", "E", "T", " ", "/", "a", " ", "H", "T", "T", "P", "/", "2", ".",
    "0", "\r", "\n", "\r", "\n">>

\* version HTTP/1.0
\*   GET /a HTTP/1.0\r\nHost: x\r\n\r\n
Version10Stream ==
  <<"G", "E", "T", " ", "/", "a", " ", "H", "T", "T", "P", "/", "1", ".",
    "0", "\r", "\n", "H", "o", "s", "t", ":", " ", "x", "\r", "\n", "\r",
    "\n">>

\* version http/1.1
\*   GET /a http/1.1\r\n\r\n
LowerVersionStream ==
  <<"G", "E", "T", " ", "/", "a", " ", "h", "t", "t", "p", "/", "1", ".",
    "1", "\r", "\n", "\r", "\n">>

\* version HTTP/1.1/x
\*   GET /a HTTP/1.1/x\r\n\r\n
ExtraSlashStream ==
  <<"G", "E", "T", " ", "/", "a", " ", "H", "T", "T", "P", "/", "1", ".",
    "1", "/", "x", "\r", "\n", "\r", "\n">>

\* version HTTP1.1
\*   GET /a HTTP1.1\r\n\r\n
NoSlashStream ==
  <<"G", "E", "T", " ", "/", "a", " ", "H", "T", "T", "P", "1", ".", "1",
    "\r", "\n", "\r", "\n">>

\* the stream ends inside the request line
\*   GET /a HTT
TruncatedLineStream ==
  <<"G", "E", "T", " ", "/", "a", " ", "H", "T", "T">>

\* the stream ends inside the header section
\*   GET /a HTTP/1.1\r\nHost: x\r\nA
TruncatedHeaderStream ==
  <<"G", "E", "T", " ", "/", "a", " ", "H", "T", "T", "P", "/", "1", ".",
    "1", "\r", "\n", "H", "o", "s", "t", ":", " ", "x", "\r", "\n", "A">>

\* the stream ends one byte short of the body
\*   GET /a HTTP/1.1\r\nContent-Length: 3\r\n\r\nab
TruncatedBodyStream ==
  <<"G", "E", "T", " ", "/", "a", " ", "H", "T", "T", "P", "/", "1", ".",
    "1", "\r", "\n", "C", "o", "n", "t", "e", "n", "t", "-", "L", "e", "n",
    "g", "t", "h", ":", " ", "3", "\r", "\n", "\r", "\n", "a", "b">>

\* a 5-byte body
\*   GET /a HTTP/1.1\r\nContent-Length: 5\r\n\r\nhello
FiveByteStream ==
  <<"G", "E", "T", " ", "/", "a", " ", "H", "T", "T", "P", "/", "1", ".",
    "1", "\r", "\n", "C", "o", "n", "t", "e", "n", "t", "-", "L", "e", "n",
    "g", "t", "h", ":", " ", "5", "\r", "\n", "\r", "\n", "h", "e", "l", "l",
    "o">>

\* a chunked body announced by Transfer-Encoding and no Content-Length
\*   GET /a HTTP/1.1\r\nTransfer-Encoding: chunked\r\n\r\n3\r\nabc\r\n0\r\n\r\n
ChunkedStream ==
  <<"G", "E", "T", " ", "/", "a", " ", "H", "T", "T", "P", "/", "1", ".",
    "1", "\r", "\n", "T", "r", "a", "n", "s", "f", "e", "r", "-", "E", "n",
    "c", "o", "d", "i", "n", "g", ":", " ", "c", "h", "u", "n", "k", "e",
    "d", "\r", "\n", "\r", "\n", "3", "\r", "\n", "a", "b", "c", "\r", "\n",
    "0", "\r", "\n", "\r", "\n">>

\* size of the read buffer of RequestFromReader; the code's 1024 is scaled
\* down so that a line longer than the buffer stays within reach
BufSize == 64

\* how many failing parse calls on one Request the model follows
MaxFails == 2

\* a request line that does not fit the read buffer
LongLineStream == [i \in 1..(BufSize + 3) |-> "a"]

ShortStreams ==
  {ExampleStream, NoHeaderStream, BodyStream,
   ZeroLengthStream, NegativeLengthStream, PlusLengthStream,
   TextLengthStream, RepeatedLengthStream, MultiValueStream,
   LoneCRStream, NoColonStream, SpaceColonStream,
   BadNameStream, TwoTokenStream, DoubleSpaceStream,
   EmptyLineStream, LineFeedStream, Version20Stream,
   Version10Stream, LowerVersionStream, ExtraSlashStream,
   NoSlashStream, TruncatedLineStream, TruncatedHeaderStream,
   TruncatedBodyStream, FiveByteStream, ChunkedStream}

Streams == ShortStreams \cup {LongLineStream}

(***************************************************************************)
(* State.  stream is the byte stream of the connection and consumed the    *)
(* number of its bytes the parser has consumed.  state, RequestLine,       *)
(* Headers and Body are the fields of the Request.  data, n, err, trace,   *)
(* rlErr and bodyRead describe the last call of parse: its argument, what  *)
(* it returned and what happened inside it.  fails counts the calls that   *)
(* returned an error.  nread, buf, pc, retReq and retErr belong to         *)
(* RequestFromReader: the bytes read so far, buf[:bufLen], the position in *)
(* the function, and what it returned.                                     *)
(***************************************************************************)
VARIABLES stream, consumed, state, RequestLine, Headers, Body,
          data, n, err, trace, rlErr, bodyRead, fails,
          nread, buf, pc, retReq, retErr,
          hstore, ref, hop,
          hreq, respHeaders, writer, fullBody, up

reqVars == <<state, RequestLine, Headers, Body>>

callVars == <<data, n, err, trace, rlErr, bodyRead>>

readerVars == <<nread, buf, pc, retReq, retErr>>

storeVars == <<hstore, ref, hop>>

handlerVars == <<hreq, respHeaders, writer, fullBody, up>>

vars == <<stream, consumed, reqVars, callVars, fails, readerVars, storeVars, handlerVars>>

\* the Request the variables hold
request == [state |-> state, RequestLine |-> RequestLine, Headers |-> Headers, Body |-> Body]

\* the names and values the operations are called with
Names == {<<"X">>, <<"x">>, <<"A", "b">>, <<"a", "B">>}

Values == {<<"a">>, <<"b">>}

\* bound on the number of values the store holds in all
MaxValues == 3

\* the two letters are equal up to case
SameLetter(c, d) ==
  \/ c = d
  \/ c \in UpperLetters /\ LowerOf[c] = d
  \/ d \in UpperLetters /\ LowerOf[d] = c

\* the two names are equal up to letter case
SameFold(a, b) == Len(a) = Len(b) /\ \A i \in 1..Len(a) : SameLetter(a[i], b[i])

\* one name for all the names of Names equal to m up to case; the empty
\* name, which only a field line can bring, stands for itself
Rep(m) == IF m = <<>> THEN <<>> ELSE CHOOSE k \in Names : SameFold(k, m)

Reps == {Rep(m) : m \in Names} \cup {<<>>}

NoOp ==
  [kind |-> "none", name |-> <<>>, value |-> <<>>, data |-> <<>>,
   n |-> 0, done |-> FALSE, err |-> "nil", prior |-> 0, bad |-> "none"]

InitStore ==
  /\ hstore = NewHeaders
  /\ ref = [k \in Reps |-> <<>>]
  /\ hop = NoOp

\* no upstream read yet: the offset in the upstream body, the sizes of the
\* chunks read so far, and what the last Read returned
NoReads == [pos |-> 0, sizes |-> <<>>, n |-> 0, err |-> "nil"]

NoRequest == [target |-> <<>>, file |-> <<>>, getFails |-> FALSE, upstream |-> <<>>]

\* the handler variables of a run in which no handler is called
InitIdleHandler ==
  /\ hreq = NoRequest
  /\ respHeaders = NewHeaders
  /\ writer = <<>>
  /\ fullBody = <<>>
  /\ up = NoReads

InitRequest ==
  /\ state = newRequest.state
  /\ RequestLine = newRequest.RequestLine
  /\ Headers = newRequest.Headers
  /\ Body = newRequest.Body
  /\ consumed = 0
  /\ data = <<>>
  /\ n = 0
  /\ err = "nil"
  /\ trace = <<newRequest.state>>
  /\ rlErr = "nil"
  /\ bodyRead = 0
  /\ fails = 0

\* the effect of one call c == parse(request, d) on the variables
Called(d, c) ==
  /\ state' = c.r.state
  /\ RequestLine' = c.r.RequestLine
  /\ Headers' = c.r.Headers
  /\ Body' = c.r.Body
  /\ data' = d
  /\ n' = c.n
  /\ err' = c.err
  /\ trace' = c.trace
  /\ rlErr' = c.rlErr
  /\ bodyRead' = c.bodyRead
  /\ consumed' = consumed + c.n
  /\ fails' = IF c.err = "nil" THEN fails ELSE fails + 1

(***************************************************************************)
(* Spec: a caller of Request.parse.  Each call passes some prefix, the     *)
(* empty one included, of the bytes of the stream not yet consumed.        *)
(***************************************************************************)
Init ==
  /\ stream \in Streams
  /\ InitRequest
  /\ nread = 0
  /\ buf = <<>>
  /\ pc = "caller"
  /\ retReq = "nil"
  /\ retErr = "nil"
  /\ InitStore
  /\ InitIdleHandler

Parse ==
  /\ fails < MaxFails
  /\ err # Panic
  /\ \E len \in 0..(Len(stream) - consumed) :
       LET d == SubSeq(stream, consumed + 1, consumed + len)
       IN  Called(d, parse(request, d))
  /\ UNCHANGED <<stream, readerVars, storeVars, handlerVars>>

Next == Parse

Spec == Init /\ [][Next]_vars

(***************************************************************************)
(* SpecReader: RequestFromReader on a reader that hands over the stream in *)
(* fragments of any size and then reports io.EOF.                          *)
(***************************************************************************)
EOF == "EOF"

\* slide without the copy: bufLen shrinks and the front of buf stays
slideNoCopy(b, readN) == Take(b, Len(b) - readN)

\* slide without the new length: the copy is made and bufLen stays
slideKeepLen(b, readN) == Drop(b, readN) \o SubSeq(b, Len(b) - readN + 1, Len(b))

\* copy(buf, buf[readN:bufLen]); bufLen -= readN
slide(b, readN) == Drop(b, readN)

\* One iteration of the loop whose Read returned k bytes and no error, on
\* the reader state d == [r, nread, buf, pc, retReq, retErr].
iteration(d, s, k) ==
  LET b == d.buf \o SubSeq(s, d.nread + 1, d.nread + k)
      c == parse(d.r, b)
  IN  [r |-> c.r, nread |-> d.nread + k, call |-> c, arg |-> b,
       buf |-> IF c.err = "nil" THEN slide(b, c.n) ELSE b,
       pc |-> IF c.err = Panic THEN "panicked"
              ELSE IF c.err # "nil" THEN "returned" ELSE "loop",
       retReq |-> "nil",
       retErr |-> IF c.err \notin {"nil", Panic} THEN c.err ELSE "nil"]

InitReader ==
  /\ stream \in Streams
  /\ InitRequest
  /\ nread = 0
  /\ buf = <<>>
  /\ pc = "loop"
  /\ retReq = "nil"
  /\ retErr = "nil"
  /\ InitStore
  /\ InitIdleHandler

readerState ==
  [r |-> request, nread |-> nread, buf |-> buf, pc |-> pc, retReq |-> retReq, retErr |-> retErr]

Iterated(d) ==
  /\ Called(d.arg, d.call)
  /\ nread' = d.nread
  /\ buf' = d.buf
  /\ pc' = d.pc
  /\ retReq' = d.retReq
  /\ retErr' = d.retErr
  /\ UNCHANGED <<stream, storeVars, handlerVars>>

\* what reader.Read(buf[bufLen:]) can return with a nil error: 0 on the empty
\* slice of a full buffer, otherwise any number of bytes, at least one, that
\* the stream still holds and the slice can take
readSizes ==
  IF Len(buf) = BufSize THEN {0}
  ELSE 1..min(BufSize - Len(buf), Len(stream) - nread)

\* one iteration of the loop: Read returns k bytes, parse, slide
ReadBytes ==
  /\ pc = "loop"
  /\ ~done(request)
  /\ \E k \in readSizes : Iterated(iteration(readerState, stream, k))

\* the stream is exhausted: Read returns io.EOF
ReadEOF ==
  /\ pc = "loop"
  /\ ~done(request)
  /\ nread = Len(stream)
  /\ pc' = "returned"
  /\ retReq' = "nil"
  /\ retErr' = EOF
  /\ UNCHANGED <<stream, consumed, reqVars, callVars, fails, nread, buf, storeVars,
                 handlerVars>>

\* the loop condition fails: return request, nil
ReturnRequest ==
  /\ pc = "loop"
  /\ done(request)
  /\ pc' = "returned"
  /\ retReq' = "request"
  /\ retErr' = "nil"
  /\ UNCHANGED <<stream, consumed, reqVars, callVars, fails, nread, buf, storeVars,
                 handlerVars>>

NextReader == ReadBytes \/ ReadEOF \/ ReturnRequest

SpecReader == InitReader /\ [][NextReader]_vars

(***************************************************************************)
(* The header store on its own.  hstore is the map of a Headers value, hop *)
(* records the last operation on it with what it returned, and ref lists   *)
(* for every field, whatever the case of its name, the values the          *)
(* operations so far have given it: those of Set and of the well-formed    *)
(* field lines Parse went through, with Replace starting the list again    *)
(* and Delete emptying it.                                                 *)
(***************************************************************************)
\* field lines as they come on the wire, with the name and value a
\* well-formed one carries and the defect of a malformed one
FieldLines ==
  {[bytes |-> <<"X", ":", " ", "a", "\r", "\n">>, name |-> <<"X">>, value |-> <<"a">>, bad |-> "none"],
   [bytes |-> <<"x", ":", "b", " ", "\r", "\n">>, name |-> <<"x">>, value |-> <<"b">>, bad |-> "none"],
   [bytes |-> <<"a", "B", ":", " ", " ", "a", "\r", "\n">>, name |-> <<"a", "B">>, value |-> <<"a">>, bad |-> "none"],
   [bytes |-> <<"X", " ", "a", "\r", "\n">>, name |-> <<>>, value |-> <<>>, bad |-> "no colon"],
   [bytes |-> <<"X", " ", ":", " ", "a", "\r", "\n">>, name |-> <<>>, value |-> <<>>, bad |-> "space before colon"],
   [bytes |-> <<"X", "@", ":", " ", "a", "\r", "\n">>, name |-> <<>>, value |-> <<>>, bad |-> "not a token"]}

\* a well-formed line with a colon and a space inside its value
ColonLine ==
  [bytes |-> <<"a", "B", ":", " ", "a", ":", "b", " ", "c", " ", "\r", "\n">>,
   name |-> <<"a", "B">>, value |-> <<"a", ":", "b", " ", "c">>, bad |-> "none"]

\* a line with nothing in front of its colon; Parse goes through it as
\* through a well-formed one
EmptyNameLine ==
  [bytes |-> <<":", " ", "a", "\r", "\n">>, name |-> <<>>, value |-> <<"a">>, bad |-> "empty name"]

\* the empty line that ends the field lines
BlankLine == [bytes |-> rn, name |-> <<>>, value |-> <<>>, bad |-> "blank"]

NoLine == [bytes |-> <<>>, name |-> <<>>, value |-> <<>>, bad |-> "absent"]

\* a line that is not complete: its line feed has not arrived
PartLine ==
  [bytes |-> <<"A", "b", ":", " ", "b", "\r">>, name |-> <<>>, value |-> <<>>,
   bad |-> "partial"]

\* the buffers Parse is called with: up to two lines, the second one
\* possibly not complete
Buffers ==
  {<<NoLine, NoLine>>, <<PartLine, NoLine>>}
    \cup ((FieldLines \cup {BlankLine})
            \X (FieldLines \cup {BlankLine, NoLine, PartLine}))
    \cup ({ColonLine, EmptyNameLine} \X {NoLine, BlankLine, PartLine})
    \cup {<<EmptyNameLine, ColonLine>>, <<ColonLine, EmptyNameLine>>}

\* the number of values rf lists for the fields of S
RECURSIVE Count(_, _)
Count(rf, S) ==
  IF S = {} THEN 0
  ELSE LET k == CHOOSE x \in S : TRUE IN Len(rf[k]) + Count(rf, S \ {k})

\* the lines of ls Parse goes through: those in front of the first blank,
\* partial or rejected line
RECURSIVE Fed(_)
Fed(ls) ==
  IF ls = <<>> THEN <<>>
  ELSE IF ls[1].bad = "absent" THEN Fed(Tail(ls))
  ELSE IF ls[1].bad \notin {"none", "empty name"} THEN <<>>
  ELSE <<ls[1]>> \o Fed(Tail(ls))

\* the defect of the first malformed line of ls in front of a blank line
RECURSIVE FirstBad(_)
FirstBad(ls) ==
  IF ls = <<>> THEN "none"
  ELSE IF ls[1].bad \in {"absent", "none", "empty name"} THEN FirstBad(Tail(ls))
  ELSE IF ls[1].bad \in {"blank", "partial"} THEN "none"
  ELSE ls[1].bad

\* ref after the values of the lines fs were given to their fields
RECURSIVE Given(_, _)
Given(rf, fs) ==
  IF fs = <<>> THEN rf
  ELSE Given([rf EXCEPT ![Rep(fs[1].name)] = rf[Rep(fs[1].name)] \o <<fs[1].value>>],
             Tail(fs))

storeFrame ==
  UNCHANGED <<stream, consumed, reqVars, callVars, fails, readerVars, handlerVars>>

Set ==
  /\ pc = "store"
  /\ \E name \in Names, value \in Values :
       /\ Count(ref, Reps) < MaxValues
       /\ hstore' = HeadersSet(hstore, name, value)
       /\ ref' = [ref EXCEPT ![Rep(name)] = ref[Rep(name)] \o <<value>>]
       /\ hop' = [NoOp EXCEPT !.kind = "Set", !.name = name, !.value = value,
                              !.prior = Len(ref[Rep(name)])]
  /\ storeFrame

Replace ==
  /\ pc = "store"
  /\ \E name \in Names, value \in Values :
       /\ Count(ref, Reps \ {Rep(name)}) < MaxValues
       /\ hstore' = HeadersReplace(hstore, name, value)
       /\ ref' = [ref EXCEPT ![Rep(name)] = <<value>>]
       /\ hop' = [NoOp EXCEPT !.kind = "Replace", !.name = name, !.value = value,
                              !.prior = Len(ref[Rep(name)])]
  /\ storeFrame

Delete ==
  /\ pc = "store"
  /\ \E name \in Names :
       /\ hstore' = HeadersDelete(hstore, name)
       /\ ref' = [ref EXCEPT ![Rep(name)] = <<>>]
       /\ hop' = [NoOp EXCEPT !.kind = "Delete", !.name = name,
                              !.prior = Len(ref[Rep(name)])]
  /\ storeFrame

\* one call of Headers.Parse
ParseLines ==
  /\ pc = "store"
  /\ \E ls \in Buffers :
       LET l1 == ls[1]
           l2 == ls[2]
           d == l1.bytes \o l2.bytes
           p == HeadersParse(hstore, d)
           rf == Given(ref, Fed(<<l1, l2>>))
       IN  /\ Count(rf, Reps) <= MaxValues
           /\ hstore' = p.h
           /\ ref' = rf
           /\ hop' = [NoOp EXCEPT !.kind = "Parse", !.data = d, !.n = p.n,
                                  !.done = p.done, !.err = p.err,
                                  !.prior = Len(Fed(<<l1, l2>>)),
                                  !.bad = FirstBad(<<l1, l2>>)]
  /\ storeFrame

InitHeaders ==
  /\ stream = <<>>
  /\ InitRequest
  /\ nread = 0
  /\ buf = <<>>
  /\ pc = "store"
  /\ retReq = "nil"
  /\ retErr = "nil"
  /\ InitStore
  /\ InitIdleHandler

NextHeaders == Set \/ Replace \/ Delete \/ ParseLines

SpecHeaders == InitHeaders /\ [][NextHeaders]_vars

(***************************************************************************)
(* cmd/httpServer: the handler.  writer is the list of the calls made on   *)
(* the response.Writer, each with its argument; hreq holds what the        *)
(* handler meets: the request target, the bytes of the video file, whether *)
(* http.Get fails, and the body the upstream will deliver.                 *)
(***************************************************************************)
StatusOK == 200

StatusBadRequest == 400

StatusInternalServeError == 500

\* the three pages, each cut down to its heading
response400 == <<"<", "h", "1", ">", "B", "a", "d", " ", "R", "e", "q", "u", "e", "s", "t", "<", "/", "h", "1", ">">>

response500 ==
  <<"<", "h", "1", ">", "I", "n", "t", "e", "r", "n", "a", "l", " ", "S",
    "e", "r", "v", "e", "r", " ", "E", "r", "r", "o", "r", "<", "/", "h",
    "1", ">">>

response200 == <<"<", "h", "1", ">", "S", "u", "c", "c", "e", "s", "s", "!", "<", "/", "h", "1", ">">>

NoCall == [call |-> "none", status |-> 0, headers |-> <<>>, bytes |-> <<>>]

WriteStatusLine(w, status) ==
  Append(w, [NoCall EXCEPT !.call = "WriteStatusLine", !.status = status])

WriteHeaders(w, h) == Append(w, [NoCall EXCEPT !.call = "WriteHeaders", !.headers = h])

WriteBody(w, bytes) == Append(w, [NoCall EXCEPT !.call = "WriteBody", !.bytes = bytes])

ContentTypeName == <<"c", "o", "n", "t", "e", "n", "t", "-", "t", "y", "p", "e">>

ConnectionName == <<"c", "o", "n", "n", "e", "c", "t", "i", "o", "n">>

\* response.GetDefaultHeaders(contentLen): a store with the content-length
\* given, with or without further fields
GetDefaultHeaders(contentLen) ==
  {HeadersSet(NewHeaders, ContentLengthName, SprintfD(contentLen)),
   HeadersSet(HeadersSet(HeadersSet(NewHeaders, ContentLengthName, SprintfD(contentLen)),
                         ConnectionName, <<"c", "l", "o", "s", "e">>),
              ContentTypeName, <<"t", "e", "x", "t", "/", "p", "l", "a", "i", "n">>)}

\* the hex digest of sha256.Sum256(b) through toStr: the digest itself is
\* not computed, a text that names its argument stands for it
Sha256Hex(b) == <<"sha256(">> \o b \o <<")">>

\* the end of the handler with a faulty order: the body goes out first
plainResponseBodyFirst(w, h, status, body) ==
  LET h1 == HeadersReplace(h, <<"C", "o", "n", "t", "e", "n", "t", "-", "l", "e", "n", "g", "t", "h">>, SprintfD(Len(body)))
      h2 == HeadersReplace(h1, <<"C", "o", "n", "t", "e", "n", "t", "-", "t", "y", "p", "e">>, <<"t", "e", "x", "t", "/", "h", "t", "m", "l">>)
  IN  [w |-> WriteHeaders(WriteStatusLine(WriteBody(w, body), status), h2), h |-> h2]

\* the end of the handler: the page with its length and type
plainResponse(w, h, status, body) ==
  LET h1 == HeadersReplace(h, <<"C", "o", "n", "t", "e", "n", "t", "-", "l", "e", "n", "g", "t", "h">>, SprintfD(Len(body)))
      h2 == HeadersReplace(h1, <<"C", "o", "n", "t", "e", "n", "t", "-", "t", "y", "p", "e">>, <<"t", "e", "x", "t", "/", "h", "t", "m", "l">>)
  IN  [w |-> WriteBody(WriteHeaders(WriteStatusLine(w, status), h2), body), h |-> h2]

\* the /video branch; f is what os.ReadFile returned, empty when it failed
videoResponse(w, h, f) ==
  LET h1 == HeadersReplace(h, <<"c", "o", "n", "t", "e", "n", "t", "-", "t", "y", "p", "e">>, <<"v", "i", "d", "e", "o", "/", "m", "p", "4">>)
      h2 == HeadersReplace(h1, <<"c", "o", "n", "t", "e", "n", "t", "-", "l", "e", "n", "g", "t", "h">>, SprintfD(Len(f)))
  IN  [w |-> WriteBody(WriteHeaders(WriteStatusLine(w, StatusOK), h2), f), h |-> h2]

\* the /httpbin/ branch up to its loop
proxyHead(w, h) ==
  LET h1 == HeadersDelete(h, <<"C", "o", "n", "t", "e", "n", "t", "-", "l", "e", "n", "g", "t", "h">>)
      h2 == HeadersSet(h1, <<"t", "r", "a", "n", "s", "f", "e", "r", "-", "e", "n", "c", "o", "d", "i", "n", "g">>, <<"c", "h", "u", "n", "k", "e", "d">>)
      h3 == HeadersReplace(h2, <<"C", "o", "n", "t", "e", "n", "t", "-", "T", "y", "p", "e">>, <<"t", "e", "x", "t", "/", "p", "l", "a", "i", "n">>)
      h4 == HeadersSet(h3, <<"T", "r", "a", "i", "l", "e", "r">>, <<"X", "-", "C", "o", "n", "t", "e", "n", "t", "-", "S", "H", "A", "2", "5", "6">>)
      h5 == HeadersSet(h4, <<"T", "r", "a", "i", "l", "e", "r">>, <<"X", "-", "C", "o", "n", "t", "e", "n", "t", "-", "L", "e", "n", "g", "t", "h", " ">>)
  IN  [w |-> WriteHeaders(WriteStatusLine(w, StatusOK), h5), h |-> h5]

\* the three writes of a chunk with a faulty size: it is written in decimal
writeChunkDecimal(w, chunk) ==
  WriteBody(WriteBody(WriteBody(w, SprintfD(Len(chunk)) \o <<"\r", "\n">>), chunk),
            <<"\r", "\n">>)

\* the three writes of one iteration of the loop, chunk being data[:n]
writeChunk(w, chunk) ==
  WriteBody(WriteBody(WriteBody(w, SprintfX(Len(chunk)) \o <<"\r", "\n">>), chunk),
            <<"\r", "\n">>)

\* the /httpbin/ branch behind its loop
proxyTail(w, full) ==
  LET t1 == HeadersSet(NewHeaders, <<"X", "-", "C", "o", "n", "t", "e", "n", "t", "-", "S", "H", "A", "2", "5", "6">>, Sha256Hex(full))
      t2 == HeadersSet(t1, <<"X", "-", "C", "o", "n", "t", "e", "n", "t", "-", "L", "e", "n", "g", "t", "h">>, SprintfD(Len(full)))
  IN  WriteHeaders(WriteBody(w, <<"0", "\r", "\n">>), t2)

HttpbinPrefix == <<"/", "h", "t", "t", "p", "b", "i", "n", "/">>

Targets ==
  {<<"/">>, <<"/", "y", "o", "u", "r", "p", "r", "o", "b", "l", "e", "m">>, <<"/", "m", "y", "p", "r", "o", "b", "l", "e", "m">>, <<"/", "v", "i", "d", "e", "o">>,
   <<"/", "h", "t", "t", "p", "b", "i", "n", "/", "g", "e", "t">>, HttpbinPrefix}

Files == {<<>>, <<"m", "p", "4">>}

\* the bodies an upstream delivers: none, 7 bytes, 35 bytes
Upstreams ==
  {<<>>, <<"a", "b", "c", "d", "e", "f", "g">>,
   <<"a", "b", "c", "d", "e", "f", "g", "h", "i", "j", "k", "l", "m", "n",
     "o", "p", "q", "r", "s", "t", "u", "v", "w", "x", "y", "z", "0", "1",
     "2", "3", "4", "5", "6", "7", "8">>}

\* the size of the array a Read of the upstream body fills
ChunkSize == 32

\* bound on the number of Reads that return no error
MaxReads == 3

\* the numbers of bytes a Read may return when left bytes are left
readCounts(left) ==
  {k \in {0, 3, 4, 16} : k <= min(ChunkSize, left)} \cup {min(ChunkSize, left)}

handlerFrame ==
  UNCHANGED <<stream, consumed, reqVars, callVars, fails, nread, buf, retReq, retErr,
              storeVars>>

\* the handler from its start to its return or to the loop of /httpbin/
Handle ==
  /\ pc = "handler"
  /\ \E h \in GetDefaultHeaders(0) :
       LET target == hreq.target
           r == IF target = <<"/", "y", "o", "u", "r", "p", "r", "o", "b", "l", "e", "m">>
                THEN plainResponse(writer, h, StatusBadRequest, response400)
                ELSE IF target = <<"/", "m", "y", "p", "r", "o", "b", "l", "e", "m">>
                THEN plainResponse(writer, h, StatusInternalServeError, response500)
                ELSE IF target = <<"/", "v", "i", "d", "e", "o">>
                THEN videoResponse(writer, h, hreq.file)
                ELSE IF HasPrefix(target, HttpbinPrefix)
                THEN (IF hreq.getFails
                      THEN plainResponse(writer, h, StatusInternalServeError, response500)
                      ELSE proxyHead(writer, h))
                ELSE plainResponse(writer, h, StatusOK, response200)
       IN  /\ writer' = r.w
           /\ respHeaders' = r.h
           /\ pc' = IF HasPrefix(target, HttpbinPrefix) /\ ~hreq.getFails
                    THEN "reading" ELSE "handled"
  /\ UNCHANGED <<hreq, fullBody, up>>
  /\ handlerFrame

\* one iteration of the loop: Read returns k bytes and no error
ReadChunk ==
  /\ pc = "reading"
  /\ Len(up.sizes) < MaxReads
  /\ \E k \in readCounts(Len(hreq.upstream) - up.pos) :
       LET chunk == SubSeq(hreq.upstream, up.pos + 1, up.pos + k)
       IN  /\ fullBody' = fullBody \o chunk
           /\ writer' = writeChunk(writer, chunk)
           /\ up' = [pos |-> up.pos + k, sizes |-> Append(up.sizes, k), n |-> k,
                     err |-> "nil"]
  /\ UNCHANGED <<hreq, respHeaders, pc>>
  /\ handlerFrame

\* the last iteration: Read returns k bytes and an error, io.EOF when the
\* body has come to its end; the loop is left and the trailers are written
ReadError ==
  /\ pc = "reading"
  /\ \E k \in readCounts(Len(hreq.upstream) - up.pos) :
       /\ up' = [up EXCEPT !.pos = up.pos + k, !.n = k,
                           !.err = IF up.pos + k = Len(hreq.upstream) THEN EOF
                                   ELSE "unexpected EOF"]
       /\ writer' = proxyTail(writer, fullBody)
  /\ pc' = "handled"
  /\ UNCHANGED <<hreq, respHeaders, fullBody>>
  /\ handlerFrame

InitHandler ==
  /\ stream = <<>>
  /\ InitRequest
  /\ nread = 0
  /\ buf = <<>>
  /\ pc = "handler"
  /\ retReq = "nil"
  /\ retErr = "nil"
  /\ InitStore
  /\ hreq \in [target : Targets, file : Files, getFails : BOOLEAN, upstream : Upstreams]
  /\ respHeaders = NewHeaders
  /\ writer = <<>>
  /\ fullBody = <<>>
  /\ up = NoReads

NextHandler == Handle \/ ReadChunk \/ ReadError

SpecHandler == InitHandler /\ [][NextHandler]_vars

(***************************************************************************)
(* Properties                                                              *)
(***************************************************************************)

\* RequestFromReader on a reader whose every Read hands over all the bytes
\* of s that are left and fit the buffer; maxIter bounds the iterations
RECURSIVE runWhole(_, _, _)
runWhole(d, s, maxIter) ==
  IF d.pc # "loop" THEN d
  ELSE IF done(d.r) THEN [d EXCEPT !.pc = "returned", !.retReq = "request", !.retErr = "nil"]
  ELSE IF d.nread = Len(s) THEN [d EXCEPT !.pc = "returned", !.retReq = "nil", !.retErr = EOF]
  ELSE IF maxIter = 0 THEN [d EXCEPT !.pc = "looping"]
  ELSE runWhole(iteration(d, s, min(BufSize - Len(d.buf), Len(s) - d.nread)), s, maxIter - 1)

\* what the caller of RequestFromReader observes
Outcome(d) ==
  [pc |-> d.pc, retErr |-> d.retErr,
   req |-> IF d.retReq = "request" THEN d.r ELSE newRequest]

WholeOutcome(s) ==
  Outcome(runWhole([r |-> newRequest, nread |-> 0, buf |-> <<>>, pc |-> "loop",
                    retReq |-> "nil", retErr |-> "nil"], s, Len(s) + 2))

\* C1: whenever RequestFromReader has returned (or panicked) after reading
\* the stream in fragments of any sizes, the request or the failure it
\* returns is the one it returns when the whole stream arrives in one read.
FragmentationTransparent ==
  pc \in {"returned", "panicked"} => Outcome(readerState) = WholeOutcome(stream)

\* a request with a body was completed by a call that saw a single byte
FragmentedRequestReturned ==
  /\ pc = "returned"
  /\ retReq = "request"
  /\ state = StateDone
  /\ stream = BodyStream
  /\ Len(data) = 1
  /\ Body = <<"a", "b", "c">>

\* C2: when RequestFromReader has returned and the parser state is Error,
\* it returned an error and no request; it returns a request without error
\* only when the parser state is Done.
ErrorStateSurfaced ==
  pc = "returned" =>
    /\ state = StateError => (retErr # "nil" /\ retReq = "nil")
    /\ (retReq = "request" /\ retErr = "nil") => state = StateDone

\* C3: the count a parse call returns lies between 0 and len(data), and the
\* part of it that was taken for the request line and the field lines ends
\* right behind a CRLF of data.
ConsumedWholeLines ==
  /\ 0 <= n /\ n <= Len(data)
  /\ 0 <= bodyRead /\ bodyRead <= n
  /\ n - bodyRead > 0 =>
       /\ n - bodyRead >= 2
       /\ data[n - bodyRead - 1] = "\r"
       /\ data[n - bodyRead] = "\n"

\* one call consumed lines and body bytes and left bytes of data behind
LinesAndBodyConsumed ==
  /\ bodyRead > 0
  /\ n - bodyRead > 0
  /\ n < Len(data)

\* C4: a parse call in Init or Headers whose data holds no CRLF returns 0
\* and no error and changes neither the state, the request line, the
\* headers nor the body.
NeedMoreDataIsNoError ==
  [][(state \in {StateInit, StateHeader} /\ Index(data', SEPARATOR) = -1)
       => (n' = 0 /\ err' = "nil" /\ UNCHANGED reqVars)]_vars

\* a call in Headers was given bytes without a CRLF
WaitedInHeaders ==
  /\ state = StateHeader
  /\ trace = <<StateHeader>>
  /\ Len(data) > 0
  /\ Index(data, SEPARATOR) = -1
  /\ n = 0

Rank(s) ==
  CASE s = StateInit -> 0 [] s = StateHeader -> 1 [] s = StateBody -> 2
    [] s = StateDone -> 3 [] OTHER -> 4

Forward(s, t) ==
  /\ s # StateError
  /\ \/ t = StateError
     \/ /\ Rank(s) < Rank(t)
        /\ t = StateBody => s = StateHeader
        /\ t = StateDone => s \in {StateHeader, StateBody}

\* C5: every change of the parser state, also those inside one call, moves
\* forward along Init, Headers, Body, Done or into Error; Body is entered
\* from Headers only and Done from Headers or Body only.
StateMovesForward ==
  \A i \in 1..(Len(trace) - 1) : Forward(trace[i], trace[i + 1])

\* one call went through all four states
AllStatesInOneCall == trace = <<StateInit, StateHeader, StateBody, StateDone>>

\* C6: a parse call made in Done or Error returns 0 consumed bytes and
\* leaves the state, the request line, the headers and the body as they are.
DoneAndErrorAbsorbing ==
  [][(state \in {StateDone, StateError}) => (n' = 0 /\ UNCHANGED reqVars)]_vars

\* a call in Done was given a complete line
CalledInDone ==
  /\ state = StateDone
  /\ trace = <<StateDone>>
  /\ Index(data, SEPARATOR) # -1

\* the first line of data, for data that holds a CRLF
FirstLine(d) == Take(d, Index(d, SEPARATOR))

\* the positions of the spaces of a line
SpacesOf(line) == {i \in 1..Len(line) : line[i] = " "}

\* C7: a parse call in Init whose data holds a CRLF and whose first line
\* has not exactly two spaces (three tokens) returns the malformed-request-
\* line error, moves to Error, consumes 0 bytes and stores no request line.
MalformedLineReported ==
  (trace[1] = StateInit /\ Index(data, SEPARATOR) # -1
     /\ Cardinality(SpacesOf(FirstLine(data))) # 2)
  => /\ err = ERROR_MALFORMED_REQUEST_LINE
     /\ state = StateError
     /\ n = 0
     /\ RequestLine = ZeroRequestLine

HTTP11Text == <<"H", "T", "T", "P", "/", "1", ".", "1">>

\* the text behind the last space of a line
LastToken(line) == Drop(line, CHOOSE i \in SpacesOf(line) : \A j \in SpacesOf(line) : j <= i)

\* C8: a parse call in Init whose first line has three tokens and a version
\* token other than HTTP/1.1 fails with the unsupported-version error, not
\* the malformed-request-line error, and stores no header.
UnsupportedVersionReported ==
  (trace[1] = StateInit /\ Index(data, SEPARATOR) # -1
     /\ Cardinality(SpacesOf(FirstLine(data))) = 2
     /\ LastToken(FirstLine(data)) # HTTP11Text)
  => /\ rlErr = ERROR_UNSUPPORTED_HTTP_VERSION
     /\ rlErr # ERROR_MALFORMED_REQUEST_LINE
     /\ Headers = NewHeaders

\* method and target as the text before the first space of the first line
\* of the stream and the text between its first and second space
MethodOf(line) == Take(line, Min(SpacesOf(line)) - 1)

TargetOf(line) ==
  LET first == Min(SpacesOf(line))
      second == Min(SpacesOf(line) \ {first})
  IN  SubSeq(line, first + 1, second - 1)

RequestLineValid ==
  /\ state \in {StateInit, StateError} => RequestLine = ZeroRequestLine
  /\ state \in {StateHeader, StateBody, StateDone} =>
       /\ RequestLine.HttpVersion = Version11
       /\ RequestLine.Method = MethodOf(FirstLine(stream))
       /\ RequestLine.RequestTarget = TargetOf(FirstLine(stream))

\* C9: the stored version is unset in Init and Error and 1.1 in Headers,
\* Body and Done, where method and target are the first and second token of
\* the request line; once stored the request line never changes.
VersionAlways11 ==
  /\ []RequestLineValid
  /\ [][(state \in {StateHeader, StateBody, StateDone}) => RequestLine' = RequestLine]_vars

GETText == <<"G", "E", "T">>

TargetText == <<"/", "a">>

\* the request line is stored and the parser is collecting the body
RequestLineStoredInBody ==
  /\ state = StateBody
  /\ RequestLine = [HttpVersion |-> Version11, RequestTarget |-> TargetText, Method |-> GETText]
  /\ Len(Body) > 0

\* v is a decimal integer greater than zero, with or without a plus sign
PositiveDecimal(v) ==
  LET d == IF Len(v) > 0 /\ v[1] = "+" THEN Drop(v, 1) ELSE v
  IN  /\ Len(d) > 0
      /\ \A i \in 1..Len(d) : d[i] \in Digits
      /\ \E i \in 1..Len(d) : d[i] # "0"

HostName == <<"h", "o", "s", "t">>

\* C10: when a call leaves Headers, it enters Body if the stored
\* content-length is a decimal integer greater than zero, and otherwise
\* Done with an empty body; the stream GET /a HTTP/1.1, Host: x, blank line
\* ends in Done with method GET, target /a, version 1.1, host = x, no body.
BodyIffPositiveLength ==
  /\ \A i \in 1..(Len(trace) - 1) :
       trace[i] = StateHeader =>
         /\ trace[i + 1] \in {StateBody, StateDone}
         /\ trace[i + 1] = StateBody <=>
              (ContentLengthName \in DOMAIN Headers
                 /\ PositiveDecimal(Headers[ContentLengthName]))
         /\ trace[i + 1] = StateDone => Body = <<>>
  /\ (stream = ExampleStream /\ consumed = Len(ExampleStream)) =>
       /\ state = StateDone
       /\ RequestLine = [HttpVersion |-> Version11, RequestTarget |-> TargetText,
                         Method |-> GETText]
       /\ DOMAIN Headers = {HostName}
       /\ Headers[HostName] = <<"x">>
       /\ Body = <<>>

\* the header section ended with the comma-joined content-length 2,2
RepeatedLengthWentToDone ==
  /\ trace[Len(trace)] = StateDone
  /\ Len(trace) > 1
  /\ trace[Len(trace) - 1] = StateHeader
  /\ ContentLengthName \in DOMAIN Headers
  /\ Headers[ContentLengthName] = <<"2", ",", "2">>
  /\ Body = <<>>

\* the number a stored content-length stands for, when it is a positive
\* decimal integer
LengthOf(v) == DecimalValue(IF v[1] = "+" THEN Drop(v, 1) ELSE v)

HasLength == ContentLengthName \in DOMAIN Headers /\ PositiveDecimal(Headers[ContentLengthName])

\* the offset in the stream at which the header section ends
HeaderEnd == Index(stream, SEPARATOR \o SEPARATOR) + Len(SEPARATOR \o SEPARATOR)

BodyExact ==
  /\ state = StateBody => (HasLength /\ Len(Body) < LengthOf(Headers[ContentLengthName]))
  /\ (state = StateDone /\ HasLength) =>
       /\ Len(Body) = LengthOf(Headers[ContentLengthName])
       /\ Body = SubSeq(stream, HeaderEnd + 1, HeaderEnd + Len(Body))
       /\ consumed = HeaderEnd + Len(Body)
  /\ StateBody \in {trace[i] : i \in 1..Len(trace)} =>
       bodyRead = min(LengthOf(Headers[ContentLengthName]) - (Len(Body) - bodyRead),
                      Len(data) - (n - bodyRead))

\* C11: with content-length L > 0 the parser is in Body while fewer than L
\* body bytes are stored and in Done with exactly the L bytes that follow
\* the header section, nothing behind them consumed; a call that starts in
\* Body takes min(L - len(body), len(data)) bytes and appends them.
BodyTakesExactlyLength ==
  /\ []BodyExact
  /\ [][(state = StateBody) =>
          /\ n' = min(LengthOf(Headers[ContentLengthName]) - Len(Body), Len(data'))
          /\ Body' = Body \o Take(data', n')]_vars

\* a 5-byte body arrived in calls of 2 and 3 bytes
BodyInTwoFragments ==
  /\ stream = FiveByteStream
  /\ state = StateDone
  /\ trace = <<StateBody, StateDone>>
  /\ Len(data) = 3
  /\ Body = <<"h", "e", "l", "l", "o">>

TransferEncodingName == <<"t", "r", "a", "n", "s", "f", "e", "r", "-", "e", "n", "c", "o", "d", "i", "n", "g">>

ChunkedText == <<"c", "h", "u", "n", "k", "e", "d">>

\* C12: a request that announces a chunked body and has no usable
\* content-length never reaches Done.
ChunkedFailsLoudly ==
  (TransferEncodingName \in DOMAIN Headers /\ Headers[TransferEncodingName] = ChunkedText
     /\ ~HasLength)
  => state # StateDone

HeaderErrors == {ErrMalformedHeaderLine, ErrMalformedFieldName, ErrMalformedHeaderName}

\* C13: after a parse call that returned a malformed-header error the parser
\* state is Error.
HeaderErrorIsTerminal == err \in HeaderErrors => state = StateError

\* C14: once a parse call has failed (it returned an error or moved the
\* parser to Error), every further call returns the in-error-state error and
\* consumes 0 bytes.
FailedStaysFailed ==
  [][(err # "nil" \/ state = StateError)
       => (err' = ERROR_REQUEST_IN_ERROR_STATE /\ n' = 0)]_vars

\* the names a lookup is made with
LookupNames == Names \cup {<<"A", "B">>, <<"a", "b">>, <<"Y">>, <<"x", "b">>}

\* the values given so far to the field m names, in the order given
ValuesOf(m) == IF \E k \in Names : SameFold(k, m) THEN ref[Rep(m)] ELSE <<>>

\* the values vs, one at least, joined by single commas
RECURSIVE JoinComma(_)
JoinComma(vs) ==
  IF Len(vs) = 1 THEN vs[1] ELSE vs[1] \o <<",">> \o JoinComma(Tail(vs))

Found(v) == [value |-> v, ok |-> TRUE]

NotFound == [value |-> <<>>, ok |-> FALSE]

\* every field of either store whose name differs from name in more than
\* letter case is in both stores with one value
OthersUnchanged(h1, h2, name) ==
  \A k \in DOMAIN h1 \cup DOMAIN h2 :
    ~SameFold(k, name) => (k \in DOMAIN h1 /\ k \in DOMAIN h2 /\ h1[k] = h2[k])

\* C15: Set(n, v) on a store with no field n makes Get(m) return (v, found)
\* for every m equal to n up to letter case; Get of a name no operation has
\* given a value to, in any case, returns not-found.
CaseInsensitiveLookup ==
  /\ [](\A m \in LookupNames : ValuesOf(m) = <<>> => HeadersGet(hstore, m) = NotFound)
  /\ [][(hop'.kind = "Set" /\ hop'.prior = 0) =>
          \A m \in LookupNames :
            SameFold(m, hop'.name) => HeadersGet(hstore', m) = Found(hop'.value)]_vars

\* Set("Ab", v) on a store without the field, read back as "aB"
SetThenGetOtherCase ==
  /\ hop.kind = "Set"
  /\ hop.prior = 0
  /\ hop.name = <<"A", "b">>
  /\ HeadersGet(hstore, <<"a", "B">>) = Found(hop.value)
  /\ ~HeadersGet(hstore, <<"x">>).ok

\* C16: Get returns the values given to a field by Set and by the field
\* lines of Parse calls, under names equal up to case, joined by single
\* commas in the order they were given.
MultiValueJoin ==
  \A m \in LookupNames :
    ValuesOf(m) # <<>> => HeadersGet(hstore, m) = Found(JoinComma(ValuesOf(m)))

\* three values under one field, the last from a Parse call that brought one
JoinedAcrossCalls ==
  /\ hop.kind = "Parse"
  /\ hop.err = "nil"
  /\ hop.prior = 1
  /\ ref[Rep(<<"X">>)] = <<<<"a">>, <<"b">>, <<"a">>>>
  /\ hstore[<<"x">>] = <<"a", ",", "b", ",", "a">>

\* C17: Replace(n, v) makes Get(m) return exactly v for every m equal to n
\* up to case, whatever was accumulated, and leaves every other field as it
\* was.
ReplaceOverwrites ==
  [][(hop'.kind = "Replace") =>
       /\ \A m \in LookupNames :
            HeadersGet(hstore', m) = IF SameFold(m, hop'.name) THEN Found(hop'.value)
                                     ELSE HeadersGet(hstore, m)
       /\ OthersUnchanged(hstore, hstore', hop'.name)]_vars

\* Replace on a field that held two values, another field being stored
ReplacedAccumulated ==
  /\ hop.kind = "Replace"
  /\ hop.prior = 2
  /\ hop.name = <<"X">>
  /\ hstore[<<"x">>] = hop.value
  /\ <<"a", "b">> \in DOMAIN hstore

\* C18: Delete(n) makes Get(m) return not-found for every m equal to n up to
\* case, changes nothing when no such field is stored, and leaves every
\* other field as it was.
DeleteRemoves ==
  [][(hop'.kind = "Delete") =>
       /\ \A m \in LookupNames :
            HeadersGet(hstore', m) = IF SameFold(m, hop'.name) THEN NotFound
                                     ELSE HeadersGet(hstore, m)
       /\ (\A k \in DOMAIN hstore : ~SameFold(k, hop'.name)) => hstore' = hstore
       /\ OthersUnchanged(hstore, hstore', hop'.name)]_vars

\* Delete("X") took away the field stored as "x" and left the other one
DeletedOtherCase ==
  /\ hop.kind = "Delete"
  /\ hop.prior > 0
  /\ hop.name = <<"X">>
  /\ DOMAIN hstore = {<<"a", "b">>}

\* C19: every stored field name is lower-case and no two stored names differ
\* only in letter case.
StoredNamesLowerCase ==
  \A k \in DOMAIN hstore :
    /\ \A i \in 1..Len(k) : k[i] \notin UpperLetters
    /\ \A j \in DOMAIN hstore : SameFold(k, j) => k = j

\* two fields stored, both given under names with capital letters
TwoFieldsFromCapitals ==
  /\ hop.kind = "Replace"
  /\ hop.name = <<"A", "b">>
  /\ hop.prior = 1
  /\ DOMAIN hstore = {<<"a", "b">>, <<"x">>}

\* C20: a Parse call that meets a complete line with no colon, with a space
\* before the colon or with a name that is not a token returns the
\* malformed-header error of that defect, and the line is not stored: no
\* field of another name appears and no field gains its value.
MalformedLinesRejected ==
  (hop.kind = "Parse" /\ hop.bad # "none") =>
    /\ hop.bad = "no colon" => hop.err = ErrMalformedHeaderLine
    /\ hop.bad = "space before colon" => hop.err = ErrMalformedFieldName
    /\ hop.bad = "not a token" => hop.err = ErrMalformedHeaderName
    /\ hop.err \in HeaderErrors
    /\ \A k \in DOMAIN hstore :
         \A i \in 1..Len(k) : k[i] \in LowerLetters \cup Digits \cup TokenPunctuation
    /\ \A m \in Names :
         HeadersGet(hstore, m) = IF ValuesOf(m) = <<>> THEN NotFound
                                 ELSE Found(JoinComma(ValuesOf(m)))

\* a well-formed line, then a line whose name holds "@"
RejectedAfterGoodLine ==
  /\ hop.kind = "Parse"
  /\ hop.bad = "not a token"
  /\ hop.prior = 1
  /\ hop.err = ErrMalformedHeaderName

\* the lines of which the buffer d is made
LinesOf(d) == CHOOSE ls \in Buffers : ls[1].bytes \o ls[2].bytes = d

\* the well-formed lines of ls that lie inside its first k bytes
RECURSIVE Within(_, _)
Within(ls, k) ==
  IF ls = <<>> \/ Len(ls[1].bytes) > k THEN <<>>
  ELSE (IF ls[1].bad = "none" THEN <<ls[1]>> ELSE <<>>)
         \o Within(Tail(ls), k - Len(ls[1].bytes))

\* what Get returns for m when rf lists the values given
Expected(rf, m) ==
  IF (\E k \in Names : SameFold(k, m)) /\ rf[Rep(m)] # <<>>
  THEN Found(JoinComma(rf[Rep(m)]))
  ELSE NotFound

\* C23: the fields a Parse call adds to the store are exactly those of the
\* complete lines inside the first n bytes of its buffer, n being the count
\* it returns; a call that returns an error returns 0 and adds nothing.
ParseStoresConsumedLines ==
  [][(hop'.kind = "Parse") =>
       /\ \A m \in LookupNames :
            HeadersGet(hstore', m)
              = Expected(Given(ref, Within(LinesOf(hop'.data), hop'.n)), m)
       /\ hop'.err # "nil" => (hop'.n = 0 /\ hstore' = hstore)]_vars

\* the buffer ls holds an empty line with only lines Parse goes through in
\* front
ReachesBlank(ls) ==
  \/ ls[1].bad = "blank"
  \/ ls[1].bad \in {"none", "empty name"} /\ ls[2].bad = "blank"

\* the offset right after the first empty line of such a buffer
AfterBlank(ls) ==
  IF ls[1].bad = "blank" THEN Len(ls[1].bytes) ELSE Len(ls[1].bytes) + Len(ls[2].bytes)

\* C24: a Parse call that comes to an empty line reports the section
\* complete with no error, its count ends right after that empty line, and
\* nothing behind the empty line becomes a field; a call that does not come
\* to one does not report the section complete.
BlankLineEndsSection ==
  hop.kind = "Parse" =>
    LET ls == LinesOf(hop.data)
    IN  IF ReachesBlank(ls)
        THEN /\ hop.done
             /\ hop.err = "nil"
             /\ hop.n = AfterBlank(ls)
             /\ \A m \in LookupNames : HeadersGet(hstore, m) = Expected(ref, m)
        ELSE ~hop.done

\* an empty line with a field line behind it: the field is not stored
BlankThenFieldLine ==
  /\ hop.kind = "Parse"
  /\ hop.data = <<"\r", "\n", "X", ":", " ", "a", "\r", "\n">>
  /\ hop.done
  /\ hop.n = 2
  /\ hstore = NewHeaders

\* C25: a well-formed field line on a store without its field is stored
\* under the lower-cased text in front of its first colon, with the value
\* all that follows that colon, inner colons and spaces kept, outer
\* whitespace removed.
FirstColonSplits ==
  [][(hop'.kind = "Parse" /\ hop'.err = "nil"
        /\ LinesOf(hop'.data)[1].bad = "none"
        /\ ref[Rep(LinesOf(hop'.data)[1].name)] = <<>>) =>
       LET l == LinesOf(hop'.data)[1]
       IN  \E k \in DOMAIN hstore' :
             /\ SameFold(k, l.name)
             /\ \A i \in 1..Len(k) : k[i] \notin UpperLetters
             /\ Len(hstore'[k]) >= Len(l.value)
             /\ Take(hstore'[k], Len(l.value)) = l.value
             /\ Len(hstore'[k]) > Len(l.value) => hstore'[k][Len(l.value) + 1] = ","]_vars

\* the line "aB: a:b c \r\n" alone on an empty store
InnerColonKept ==
  /\ hop.kind = "Parse"
  /\ hop.data = <<"a", "B", ":", " ", "a", ":", "b", " ", "c", " ", "\r", "\n">>
  /\ hop.n = Len(hop.data)
  /\ hstore = [k \in {<<"a", "b">>} |-> <<"a", ":", "b", " ", "c">>]

\* C29: a field line with an empty name makes Parse fail with a
\* malformed-header error, and every stored name is a non-empty string of
\* token characters.
EmptyNameRejected ==
  /\ (hop.kind = "Parse" /\ LinesOf(hop.data)[1].bad = "empty name") =>
       hop.err \in HeaderErrors
  /\ \A k \in DOMAIN hstore :
       /\ k # <<>>
       /\ \A i \in 1..Len(k) :
            k[i] \in LowerLetters \cup UpperLetters \cup Digits \cup TokenPunctuation

\* C26: after every iteration of the loop of RequestFromReader the buffer
\* holds at most BufSize bytes, and the bytes the parser has consumed
\* followed by the bytes in the buffer are the bytes read from the stream.
BufferConserved ==
  /\ 0 <= Len(buf)
  /\ Len(buf) <= BufSize
  /\ consumed + Len(buf) = nread
  /\ Take(stream, consumed) \o buf = Take(stream, nread)

\* a slide has left bytes in the buffer behind the consumed ones
SlidRemainder ==
  /\ pc = "loop"
  /\ n > 0
  /\ consumed > n
  /\ Len(buf) > 1
  /\ nread < Len(stream)

\* the loop of RequestFromReader cannot leave this state: the buffer is
\* full, so the Read gets an empty slice and returns 0 bytes and no error,
\* and the iteration it starts ends in the very same state
Spinning ==
  /\ pc = "loop"
  /\ ~done(request)
  /\ readSizes = {0}
  /\ LET d == iteration(readerState, stream, 0)
     IN  d.r = request /\ d.buf = buf /\ d.nread = nread /\ d.pc = pc

\* C27: RequestFromReader always returns: its loop never comes to a state
\* where the buffer is full, the parser consumes nothing and every further
\* iteration is a zero-length read that changes nothing.
ReaderNeverSpins == ~Spinning

\* C28: no parse call panics: the state is one of the five, in Body the
\* stored content-length is a positive integer L with len(Body) < L, and
\* len(Body) never exceeds L (0 when there is none).
PanicsUnreachable ==
  /\ err # Panic
  /\ state \in {StateInit, StateHeader, StateBody, StateDone, StateError}
  /\ state = StateBody =>
       (HasLength /\ Len(Body) < LengthOf(Headers[ContentLengthName]))
  /\ Len(Body) <= (IF HasLength THEN LengthOf(Headers[ContentLengthName]) ELSE 0)

\* a call in state Body that left the body short of its length
BodyPartlyRead ==
  /\ state = StateBody
  /\ trace = <<StateBody>>
  /\ bodyRead > 0
  /\ Len(Body) > bodyRead

\* the places in the list of writes of the calls of one method
Calls(method) == {i \in 1..Len(writer) : writer[i].call = method}

\* the handler has taken the branch that streams an upstream body
Proxied == HasPrefix(hreq.target, HttpbinPrefix) /\ ~hreq.getFails

\* C21: on every path of the handler the first write is WriteStatusLine and
\* it is the only one, a returned handler has made it and a WriteHeaders,
\* and every WriteBody has a WriteHeaders in front of it.
WritesOrdered ==
  /\ writer # <<>> => writer[1].call = "WriteStatusLine"
  /\ Cardinality(Calls("WriteStatusLine")) <= 1
  /\ pc = "handled" =>
       (Cardinality(Calls("WriteStatusLine")) = 1 /\ Calls("WriteHeaders") # {})
  /\ \A i \in Calls("WriteHeaders") : \E j \in Calls("WriteStatusLine") : j < i
  /\ \A i \in Calls("WriteBody") : \E j \in Calls("WriteHeaders") : j < i

\* the streaming branch has returned after two chunks and the trailers
ProxyPathWritten ==
  /\ pc = "handled"
  /\ Proxied
  /\ Len(up.sizes) = 2
  /\ Cardinality(Calls("WriteHeaders")) = 2
  /\ Cardinality(Calls("WriteBody")) = 7

HexDigitValue ==
  [c \in Digits \cup {"a", "b", "c", "d", "e", "f"} |->
     IF c \in Digits THEN DigitVal[c]
     ELSE CASE c = "a" -> 10 [] c = "b" -> 11 [] c = "c" -> 12
            [] c = "d" -> 13 [] c = "e" -> 14 [] c = "f" -> 15]

\* the number a text of lower-case hexadecimal digits stands for
RECURSIVE HexValue(_)
HexValue(t) ==
  IF t = <<>> THEN 0
  ELSE 16 * HexValue(Take(t, Len(t) - 1)) + HexDigitValue[t[Len(t)]]

RECURSIVE SumSeq(_)
SumSeq(q) == IF q = <<>> THEN 0 ELSE q[1] + SumSeq(Tail(q))

\* the bytes of the writes from place i to place j, one after the other
RECURSIVE BytesWritten(_, _)
BytesWritten(i, j) == IF i > j THEN <<>> ELSE writer[i].bytes \o BytesWritten(i + 1, j)

\* the chunk the j-th Read without error returned
ChunkRead(j) ==
  SubSeq(hreq.upstream, SumSeq(Take(up.sizes, j - 1)) + 1, SumSeq(Take(up.sizes, j)))

\* the payloads written, one after the other
RECURSIVE Payloads(_)
Payloads(j) == IF j = 0 THEN <<>> ELSE Payloads(j - 1) \o writer[3 * j + 1].bytes

XContentLengthName == <<"x", "-", "c", "o", "n", "t", "e", "n", "t", "-", "l", "e", "n", "g", "t", "h">>

XContentSHA256Name == <<"x", "-", "c", "o", "n", "t", "e", "n", "t", "-", "s", "h", "a", "2", "5", "6">>

\* C22: behind the header section the streaming branch writes, for every
\* chunk read, its length in lower-case hexadecimal and CRLF, the chunk,
\* and CRLF; then "0\r\n" once; then the trailers, whose x-content-length
\* is the sum of the sizes written.
ChunkFraming ==
  (pc = "handled" /\ Proxied) =>
    LET m == Len(up.sizes)
    IN  /\ Len(writer) = 3 * m + 4
        /\ \A j \in 1..m :
             LET size == Take(writer[3 * j].bytes, Len(writer[3 * j].bytes) - Len(rn))
             IN  /\ \A i \in {0, 1, 2} : writer[3 * j + i].call = "WriteBody"
                 /\ writer[3 * j].bytes = size \o rn
                 /\ size # <<>>
                 /\ \A i \in 1..Len(size) : size[i] \in DOMAIN HexDigitValue
                 /\ HexValue(size) = Len(writer[3 * j + 1].bytes)
                 /\ writer[3 * j + 1].bytes = ChunkRead(j)
                 /\ writer[3 * j + 2].bytes = rn
        /\ writer[3 * m + 3].call = "WriteBody"
        /\ writer[3 * m + 3].bytes = <<"0">> \o rn
        /\ writer[3 * m + 4].call = "WriteHeaders"
        /\ DOMAIN writer[3 * m + 4].headers = {XContentLengthName, XContentSHA256Name}
        /\ LET total == writer[3 * m + 4].headers[XContentLengthName]
           IN  /\ total # <<>>
               /\ \A i \in 1..Len(total) : total[i] \in Digits
               /\ DecimalValue(total) = SumSeq(up.sizes)
               /\ DecimalValue(total) = Len(Payloads(m))

\* chunks of 3 and 4 bytes, abc and defg
ThreeThenFour ==
  /\ pc = "handled"
  /\ up.sizes = <<3, 4>>
  /\ BytesWritten(3, Len(writer) - 1)
       = <<"3", "\r", "\n", "a", "b", "c", "\r", "\n", "4", "\r", "\n", "d", "e", "f", "g", "\r", "\n", "0", "\r", "\n">>

\* C30: when the streaming branch has returned, the payloads written are,
\* one after the other, all the bytes the Reads of the upstream body have
\* returned, and no payload is empty.
NoUpstreamByteDropped ==
  (pc = "handled" /\ Proxied) =>
    /\ Payloads(Len(up.sizes)) = Take(hreq.upstream, up.pos)
    /\ \A j \in 1..Len(up.sizes) : writer[3 * j + 1].bytes # <<>>

====
